---- MODULE Spec2Model ----
(***************************************************************************)
(* Model of the INGInious matching-problem front end:                      *)
(*   - the studio (authoring) side: studio_init_template_matching,         *)
(*     studio_create_matching_question, studio_delete_matching_question;  *)
(*   - the task side: load_input_matching.                                 *)
(* The state is the part of the page the functions read and write: the     *)
(* question rows of every problem panel, each panel's two checkboxes and   *)
(* three feedback editors, and the select controls of a task page.         *)
(* Element ids are real strings built by concatenation, exactly as the     *)
(* code builds them, so two ids are equal when their characters are.       *)
(***************************************************************************)
EXTENDS Integers, Sequences, FiniteSets, TLC

VARIABLES document, checked, editors, controls, lastCall

vars == <<document, checked, editors, controls, lastCall>>

-----------------------------------------------------------------------------
(* Bounds *)

\* Total number of question rows the page may hold.
MaxRows == 3
\* Longest "questions" sequence of a problem definition.
MaxQuestions == 2
\* Number of form controls of a task page.
NumControls == 2
\* Longest sequence of submitted values under one key.
MaxValues == 2

-----------------------------------------------------------------------------
(* The page *)

\* Problem panels of the studio page in document order.  "a" is an ordinary
\* problem id, "0" and "1" are purely numeric ones.
Pids == <<"a", "0", "1">>

PidSet == {Pids[k] : k \in 1..Len(Pids)}

\* Value of the question / answer inputs in the row template.
TemplateDefault == ""

NoCall == [op |-> "none", pid |-> "", arg |-> 0, matched |-> 0]

-----------------------------------------------------------------------------
(* Ids *)

\* The id the index scan looks up: "#question-" + pid + "-" + index.
RowLookupId(pid, index) == "question-" \o pid \o "-" \o ToString(index)

\* The id given to a new row, and the one deletion looks up:
\* "question-" + index + "-" + pid.
RowContainerId(pid, index) == "question-" \o ToString(index) \o "-" \o pid

-----------------------------------------------------------------------------
(* The document as jQuery sees it *)

RowIds(doc, pid) == [k \in 1..Len(doc[pid]) |-> doc[pid][k].id]

RowIdSet(doc, pid) == {doc[pid][k].id : k \in 1..Len(doc[pid])}

RECURSIVE TotalRowsFrom(_, _)
TotalRowsFrom(doc, k) ==
  IF k > Len(Pids) THEN 0 ELSE Len(doc[Pids[k]]) + TotalRowsFrom(doc, k + 1)

TotalRows(doc) == TotalRowsFrom(doc, 1)

\* $("#" + id).length != 0
ElementExists(doc, id) == \E p \in PidSet : id \in RowIdSet(doc, p)

\* An index scan that steps before it tests (do index++ while ...).
RECURSIVE ScanIndexStepFirst(_, _, _)
ScanIndexStepFirst(doc, pid, index) ==
  IF ElementExists(doc, RowLookupId(pid, index + 1))
  THEN ScanIndexStepFirst(doc, pid, index + 1)
  ELSE index + 1

\* var index = 0; while ($("#question-" + pid + "-" + index).length != 0) index++;
RECURSIVE ScanIndex(_, _, _)
ScanIndex(doc, pid, index) ==
  IF ElementExists(doc, RowLookupId(pid, index))
  THEN ScanIndex(doc, pid, index + 1)
  ELSE index

\* The row built from the template and question_data.
NewRow(pid, index, question_data) ==
  [id |-> RowContainerId(pid, index),
   question |-> IF "question" \in DOMAIN question_data
                THEN question_data["question"] ELSE TemplateDefault,
   answer |-> IF "answer" \in DOMAIN question_data
              THEN question_data["answer"] ELSE TemplateDefault,
   success_feedback |-> IF "success_feedback" \in DOMAIN question_data
                        THEN question_data["success_feedback"] ELSE "",
   error_feedback |-> IF "error_feedback" \in DOMAIN question_data
                      THEN question_data["error_feedback"] ELSE ""]

\* The document after studio_create_matching_question(pid, question_data).
CreateRow(doc, pid, question_data) ==
  LET index == ScanIndex(doc, pid, 0)
  IN [doc EXCEPT ![pid] = Append(@, NewRow(pid, index, question_data))]

\* jQuery.each(problem["questions"], ...): one creation per entry, in order.
RECURSIVE CreateAll(_, _, _)
CreateAll(doc, pid, questions) ==
  IF questions = <<>>
  THEN doc
  ELSE CreateAll(CreateRow(doc, pid, Head(questions)), pid, Tail(questions))

RemoveAt(s, j) == [k \in 1..(Len(s) - 1) |-> IF k < j THEN s[k] ELSE s[k + 1]]

\* Position in page order of the first panel holding an element with this id
\* (0 when there is none).
RECURSIVE FirstPanel(_, _, _)
FirstPanel(doc, id, k) ==
  IF k > Len(Pids) THEN 0
  ELSE IF id \in RowIdSet(doc, Pids[k]) THEN k
  ELSE FirstPanel(doc, id, k + 1)

\* $("#" + id).detach(): an id selector matches the first element of the
\* document carrying the id; that element alone leaves the tree.
Detach(doc, id) ==
  LET k == FirstPanel(doc, id, 1)
  IN IF k = 0 THEN doc
     ELSE LET p == Pids[k]
              j == CHOOSE j \in 1..Len(doc[p]) :
                     /\ doc[p][j].id = id
                     /\ \A i \in 1..(j - 1) : doc[p][i].id # id
          IN [doc EXCEPT ![p] = RemoveAt(@, j)]

\* A deletion selector built in the order the index scan uses.
DeleteSelectorScanOrder(pid, question) == RowLookupId(pid, question)

\* The selector of studio_delete_matching_question.
DeleteSelector(pid, question) == RowContainerId(pid, question)

-----------------------------------------------------------------------------
(* Inputs *)

QuestionFields == {"question", "answer", "success_feedback", "error_feedback"}

FullQuestion ==
  [question |-> "q", answer |-> "r", success_feedback |-> "ok", error_feedback |-> "ko"]

Restrict(f, S) == [x \in S |-> f[x]]

\* Question entries: every field absent, every field present.
QuestionDatas == {Restrict(FullQuestion, {}), FullQuestion}

RECURSIVE SeqsUpTo(_, _)
SeqsUpTo(S, n) ==
  IF n = 0 THEN {<<>>}
  ELSE LET shorter == SeqsUpTo(S, n - 1)
       IN shorter \cup {Append(s, x) : s \in shorter, x \in S}

FlagFields == {"unshuffle", "centralize"}

FeedbackFields == {"all_success_feedback", "partial_success_feedback", "all_error_feedback"}

FeedbackStrings == {"s", "t"}

\* problem[f] for a flag: JavaScript truthiness of the stored value.
Truthy(v) == v = TRUE

-----------------------------------------------------------------------------
(* studio_init_template_matching *)

\* A flag test that forgets the value: "unshuffle" in problem alone.
CheckedAfterPresenceOnly(problem, field, before) ==
  IF field \in DOMAIN problem THEN TRUE ELSE before

CheckedAfter(problem, field, before) ==
  IF field \in DOMAIN problem /\ Truthy(problem[field]) THEN TRUE ELSE before

\* A feedback read that uses the first field's key for all three.
FeedbackValueFirstKey(problem, field) ==
  IF "all_success_feedback" \in DOMAIN problem
  THEN problem["all_success_feedback"] ELSE ""

FeedbackValue(problem, field) ==
  IF field \in DOMAIN problem THEN problem[field] ELSE ""

studio_init_template_matching(pid, problem) ==
  /\ TotalRows(document) + Len(problem["questions"]) <= MaxRows
  /\ checked' = [checked EXCEPT ![pid] =
                   [unshuffle |-> CheckedAfter(problem, "unshuffle", @.unshuffle),
                    centralize |-> CheckedAfter(problem, "centralize", @.centralize)]]
  /\ editors' = [editors EXCEPT ![pid] =
                   [f \in FeedbackFields |-> FeedbackValue(problem, f)]]
  /\ document' = CreateAll(document, pid, problem["questions"])
  /\ lastCall' = [op |-> "init", pid |-> pid,
                  arg |-> Len(problem["questions"]), matched |-> 0]
  /\ UNCHANGED controls

-----------------------------------------------------------------------------
(* studio_create_matching_question *)

studio_create_matching_question(pid, question_data) ==
  /\ TotalRows(document) < MaxRows
  /\ document' = CreateRow(document, pid, question_data)
  /\ lastCall' = [op |-> "create", pid |-> pid,
                  arg |-> ScanIndex(document, pid, 0), matched |-> 0]
  /\ UNCHANGED <<checked, editors, controls>>

-----------------------------------------------------------------------------
(* studio_delete_matching_question *)

studio_delete_matching_question(pid, question) ==
  /\ document' = Detach(document, DeleteSelector(pid, question))
  /\ lastCall' = [op |-> "delete", pid |-> pid, arg |-> question,
                  matched |-> IF ElementExists(document, DeleteSelector(pid, question))
                              THEN 1 ELSE 0]
  /\ UNCHANGED <<checked, editors, controls>>

-----------------------------------------------------------------------------
(* Specification of the studio page: rows *)

Init ==
  /\ document = [p \in PidSet |-> <<>>]
  /\ checked = [p \in PidSet |-> [unshuffle |-> FALSE, centralize |-> FALSE]]
  /\ editors = [p \in PidSet |-> [f \in FeedbackFields |-> ""]]
  /\ controls = <<>>
  /\ lastCall = NoCall

\* Indices a caller may pass to deletion.
DeleteIndices == 0..(MaxRows - 1)

InitializeQuestions ==
  \E pid \in PidSet, questions \in SeqsUpTo(QuestionDatas, MaxQuestions) :
    studio_init_template_matching(pid, [questions |-> questions])

CreateQuestion ==
  \E pid \in PidSet, question_data \in QuestionDatas :
    studio_create_matching_question(pid, question_data)

DeleteQuestion ==
  \E pid \in PidSet, question \in DeleteIndices :
    studio_delete_matching_question(pid, question)

Next == InitializeQuestions \/ CreateQuestion \/ DeleteQuestion

Spec == Init /\ [][Next]_vars

-----------------------------------------------------------------------------
(* Specification of the studio page: flags and aggregate feedback *)

\* Panels initialised in this specification.
InitPids == {"a"}

OptionalFields == FlagFields \cup FeedbackFields

\* A problem definition holding the fields of `present` and "questions".
ProblemOf(present, unshuffle, centralize, texts, questions) ==
  [f \in present \cup {"questions"} |->
     CASE f = "unshuffle" -> unshuffle
       [] f = "centralize" -> centralize
       [] f = "questions" -> questions
       [] OTHER -> texts[f]]

\* One definition per combination: an absent field has no value to vary.
Canonical(present, unshuffle, centralize, texts) ==
  /\ unshuffle => "unshuffle" \in present
  /\ centralize => "centralize" \in present
  /\ \A f \in FeedbackFields : texts[f] # "s" => f \in present

InitializeFlags ==
  \E pid \in InitPids, present \in SUBSET OptionalFields,
     unshuffle \in BOOLEAN, centralize \in BOOLEAN,
     texts \in [FeedbackFields -> FeedbackStrings] :
    /\ Canonical(present, unshuffle, centralize, texts)
    /\ studio_init_template_matching(pid,
         ProblemOf(present, unshuffle, centralize, texts, <<>>))

NextInit == InitializeFlags

SpecInit == Init /\ [][NextInit]_vars

-----------------------------------------------------------------------------
(* load_input_matching *)

Keys == {"q1", "q2"}

Values == {"x", "y"}

\* key + "_" + i
ControlId(key, i) == key \o "_" \o ToString(i)

\* ".problem select[id='...']": a select element, inside a .problem element,
\* whose id attribute is the given string.
Matches(control, id) ==
  /\ control.tag = "select"
  /\ control.inProblem
  /\ control.id = id

\* $(selector).val(value): every matched element takes the value.
SetVal(ctrls, id, value) ==
  [k \in 1..Len(ctrls) |->
     IF Matches(ctrls[k], id) THEN [ctrls[k] EXCEPT !.value = value] ELSE ctrls[k]]

\* A loop that numbers the entries from 1.
RECURSIVE LoadEntriesFromOne(_, _, _, _)
LoadEntriesFromOne(ctrls, key, values, i) ==
  IF i >= Len(values)
  THEN ctrls
  ELSE LoadEntriesFromOne(SetVal(ctrls, ControlId(key, i + 1), values[i + 1]),
                          key, values, i + 1)

\* for (const [i, value] of input[key].entries()) ...: entries from position i on.
RECURSIVE LoadEntries(_, _, _, _)
LoadEntries(ctrls, key, values, i) ==
  IF i >= Len(values)
  THEN ctrls
  ELSE LoadEntries(SetVal(ctrls, ControlId(key, i), values[i + 1]), key, values, i + 1)

load_input_matching(submissionid, key, input) ==
  /\ controls' = IF key \in DOMAIN input
                 THEN LoadEntries(controls, key, input[key], 0)
                 ELSE controls
  /\ lastCall' = [op |-> "load", pid |-> key,
                  arg |-> IF key \in DOMAIN input THEN Len(input[key]) ELSE 0,
                  matched |-> IF key \in DOMAIN input THEN 1 ELSE 0]
  /\ UNCHANGED <<document, checked, editors>>

\* The elements a task page may hold: selects inside the problem region,
\* selects outside it, and other inputs, with ids of the submitted fields.
PageControlIds == {ControlId("q1", 0), ControlId("q1", 1), ControlId("q2", 0)}

ControlShapes ==
  {[id |-> id, tag |-> shape[1], inProblem |-> shape[2], value |-> ""] :
     id \in PageControlIds,
     shape \in {<<"select", TRUE>>, <<"select", FALSE>>, <<"input", TRUE>>}}

InitInput ==
  /\ document = [p \in PidSet |-> <<>>]
  /\ checked = [p \in PidSet |-> [unshuffle |-> FALSE, centralize |-> FALSE]]
  /\ editors = [p \in PidSet |-> [f \in FeedbackFields |-> ""]]
  /\ controls \in [1..NumControls -> ControlShapes]
  /\ lastCall = NoCall

\* Payloads with one field: the key asked for, holding any sequence, or the
\* other key, holding the empty sequence.
LoadInput ==
  \E key \in Keys, holder \in Keys, values \in SeqsUpTo(Values, MaxValues) :
    /\ holder # key => values = <<>>
    /\ load_input_matching("sub1", key, [k \in {holder} |-> values])

NextInput == LoadInput

SpecInput == InitInput /\ [][NextInput]_vars

-----------------------------------------------------------------------------
(* Properties.  The ids below are written out again from the documented    *)
(* conventions, independently of the operators the actions use.            *)

\* Row container id "question-{index}-{pid}".
ContainerIdOf(pid, index) == "question-" \o ToString(index) \o "-" \o pid

\* Row lookup id "question-{pid}-{index}".
LookupIdOf(pid, index) == "question-" \o pid \o "-" \o ToString(index)

\* Some element of the page carries the id.
IdPresent(doc, id) ==
  \E p \in PidSet : \E k \in 1..Len(doc[p]) : doc[p][k].id = id

LastRow(doc, pid) == doc[pid][Len(doc[pid])]

StudioOps == {"init", "create", "delete"}

\* C1: N creations in sequence on a panel with no rows (as initialisation
\* performs for a definition with N questions) leave exactly the rows
\* question-0-{pid}, ..., question-{N-1}-{pid}, in that order.
C1_SequentialRowIds ==
  [][\A pid \in PidSet :
       (/\ document[pid] = <<>>
        /\ lastCall'.op = "init"
        /\ lastCall'.pid = pid)
       => RowIds(document', pid) =
            [k \in 1..lastCall'.arg |-> ContainerIdOf(pid, k - 1)]]_vars

\* Smallest index no row of the panel holds.
SmallestFreeIndex(doc, pid) ==
  CHOOSE j \in 0..Len(doc[pid]) :
    /\ ContainerIdOf(pid, j) \notin RowIdSet(doc, pid)
    /\ \A i \in 0..(j - 1) : ContainerIdOf(pid, i) \in RowIdSet(doc, pid)

\* C2: after a deletion that removed a row, the next creation on the same
\* panel creates the row whose index is the smallest one no remaining row of
\* the panel holds.
C2_ReuseSmallestFreedIndex ==
  [][(/\ lastCall.op = "delete"
      /\ lastCall.matched = 1
      /\ lastCall'.op = "create"
      /\ lastCall'.pid = lastCall.pid)
     => LastRow(document', lastCall.pid).id =
          ContainerIdOf(lastCall.pid, SmallestFreeIndex(document, lastCall.pid))]_vars

\* C3: in every reachable state no two rows of one panel carry the same
\* container id.
C3_RowIdsUnique ==
  \A pid \in PidSet :
    \A j, k \in 1..Len(document[pid]) :
      j # k => document[pid][j].id # document[pid][k].id

\* C4: a deletion called when no row question-{q}-{pid} exists leaves the
\* rows of every panel (and everything else on the page) unchanged.
C4_DeleteAbsentIsNoOp ==
  [][(/\ lastCall'.op = "delete"
      /\ ~IdPresent(document, ContainerIdOf(lastCall'.pid, lastCall'.arg)))
     => /\ document' = document
        /\ UNCHANGED <<checked, editors, controls>>]_vars

\* C4 witness: a deletion that matched nothing has run on a page with rows.
C4_Witness ==
  /\ lastCall.op = "delete"
  /\ lastCall.matched = 0
  /\ TotalRows(document) > 0

\* C8: the index a creation uses is the smallest i >= 0 such that no element
\* with the lookup id question-{pid}-{i} exists when it is called; the new row
\* is appended with container id question-{i}-{pid}; the scan ends within as
\* many steps as the page has rows.
C8_SmallestFreeLookupIndex ==
  [][lastCall'.op = "create"
     => LET pid == lastCall'.pid
            i == lastCall'.arg
        IN /\ ~IdPresent(document, LookupIdOf(pid, i))
           /\ \A j \in 0..(i - 1) : IdPresent(document, LookupIdOf(pid, j))
           /\ i <= TotalRows(document)
           /\ Len(document'[pid]) = Len(document[pid]) + 1
           /\ LastRow(document', pid).id = ContainerIdOf(pid, i)]_vars

\* C8 witness: a creation whose scan went past index 0.
C8_Witness ==
  /\ lastCall.op = "create"
  /\ lastCall.arg >= 1
  /\ LastRow(document, lastCall.pid).id = ContainerIdOf(lastCall.pid, lastCall.arg)

\* C9: a deletion called when the row question-{q}-{pid} exists leaves no row
\* with that id, and every other row in place, in order.
C9_DeleteRemovesRow ==
  [][(/\ lastCall'.op = "delete"
      /\ IdPresent(document, ContainerIdOf(lastCall'.pid, lastCall'.arg)))
     => LET pid == lastCall'.pid
            id == ContainerIdOf(pid, lastCall'.arg)
        IN /\ document'[pid] = SelectSeq(document[pid], LAMBDA row : row.id # id)
           /\ \A p \in PidSet \ {pid} : document'[p] = document[p]]_vars

\* The page with every panel but one emptied.
OnlyPanel(doc, pid) == [p \in PidSet |-> IF p = pid THEN doc[p] ELSE <<>>]

\* C10: the index a creation on panel p would assign and the row a deletion
\* on p would remove are the same whatever the other panels hold, and no
\* studio operation on p changes the rows of another panel.
C10_PanelsIsolated ==
  [][/\ \A p \in PidSet :
          ScanIndex(document, p, 0) = ScanIndex(OnlyPanel(document, p), p, 0)
     /\ \A p \in PidSet, q \in DeleteIndices :
          Detach(document, DeleteSelector(p, q))[p] =
            Detach(OnlyPanel(document, p), DeleteSelector(p, q))[p]
     /\ lastCall'.op \in StudioOps =>
          \A p \in PidSet \ {lastCall'.pid} : document'[p] = document[p]]_vars

\* C6: initialisation leaves a checkbox that was unchecked checked exactly
\* when its field is present and true in the definition, and does not modify
\* a checkbox whose field is absent or false.
C6_FlagsChecked ==
  [][\A pid \in InitPids, present \in SUBSET OptionalFields,
        unshuffle \in BOOLEAN, centralize \in BOOLEAN,
        texts \in [FeedbackFields -> FeedbackStrings] :
       (/\ lastCall'.op = "init"
        /\ Canonical(present, unshuffle, centralize, texts)
        /\ studio_init_template_matching(pid,
             ProblemOf(present, unshuffle, centralize, texts, <<>>)))
       => LET wantUnshuffle == "unshuffle" \in present /\ unshuffle
              wantCentralize == "centralize" \in present /\ centralize
          IN /\ ~checked[pid].unshuffle => (checked'[pid].unshuffle <=> wantUnshuffle)
             /\ ~checked[pid].centralize => (checked'[pid].centralize <=> wantCentralize)
             /\ ~wantUnshuffle => checked'[pid].unshuffle = checked[pid].unshuffle
             /\ ~wantCentralize => checked'[pid].centralize = checked[pid].centralize]_vars

\* C6 witness: after an initialisation one checkbox is checked, the other not.
C6_Witness ==
  /\ lastCall.op = "init"
  /\ checked["a"].unshuffle
  /\ ~checked["a"].centralize

\* C7: after initialisation each aggregate feedback editor holds "" when its
\* field is absent from the definition and the field's string when present.
C7_FeedbackPassThrough ==
  [][\A pid \in InitPids, present \in SUBSET OptionalFields,
        unshuffle \in BOOLEAN, centralize \in BOOLEAN,
        texts \in [FeedbackFields -> FeedbackStrings] :
       (/\ lastCall'.op = "init"
        /\ Canonical(present, unshuffle, centralize, texts)
        /\ studio_init_template_matching(pid,
             ProblemOf(present, unshuffle, centralize, texts, <<>>)))
       => \A f \in FeedbackFields :
            editors'[pid][f] = IF f \in present THEN texts[f] ELSE ""]_vars

\* C7 witness: after an initialisation the three editors hold a string, the
\* empty string and another string.
C7_Witness ==
  /\ lastCall.op = "init"
  /\ editors["a"]["all_success_feedback"] = "t"
  /\ editors["a"]["partial_success_feedback"] = ""
  /\ editors["a"]["all_error_feedback"] = "s"

\* Control id "{key}_{i}".
ControlIdOf(key, i) == key \o "_" \o ToString(i)

\* Positions i of the values whose id {key}_{i} addresses the control.
Addressing(control, key, values) ==
  {i \in 0..(Len(values) - 1) :
     /\ control.tag = "select"
     /\ control.inProblem
     /\ control.id = ControlIdOf(key, i)}

\* C5: loading an input whose payload lacks the key changes no control;
\* otherwise every select control of the problem region with id {key}_{i},
\* i a position of payload[key], takes payload[key][i], and every other
\* control keeps its value.
C5_LoadInput ==
  [][\A key \in {lastCall'.pid} \cap Keys, holder \in Keys :
     \A values \in (IF key = holder THEN [1..lastCall'.arg -> Values] ELSE {<<>>}) :
       load_input_matching("sub1", key, [k \in {holder} |-> values])
       => IF key # holder
          THEN controls' = controls
          ELSE /\ Len(controls') = Len(controls)
               /\ \A k \in 1..Len(controls) :
                    LET hits == Addressing(controls[k], key, values)
                    IN IF hits = {}
                       THEN controls'[k] = controls[k]
                       ELSE \A i \in hits :
                              controls'[k] = [controls[k] EXCEPT !.value = values[i + 1]]]_vars

\* C5 witness: a load of a full-length sequence has set one control and left
\* another at its default.
C5_Witness ==
  /\ lastCall.op = "load"
  /\ lastCall.matched = 1
  /\ lastCall.arg = MaxValues
  /\ \E k \in 1..Len(controls) : controls[k].value # ""
  /\ \E k \in 1..Len(controls) : controls[k].value = ""

====
